---------------------------- MODULE Spec2Model ----------------------------
(***************************************************************************)
(* Model of app/services/orchestration_service.py:                         *)
(* IntelligentHybridOrchestrator, the AI-first chat orchestrator with the  *)
(* scripted ("Firebase") fallback questionnaire and the phone handoff.     *)
(*                                                                         *)
(* Representation of Python values:                                        *)
(*  - a str is a sequence of fragments.  Text that the code inspects       *)
(*    character by character (user messages, AI answers, stored answers)   *)
(*    is spelled one character per fragment; a fixed literal of the source *)
(*    that is only concatenated is one non-empty fragment.  The empty str  *)
(*    is << >>, len() is Len on character-spelled text.  A character      *)
(*    outside ASCII is the fragment "U+<code point>".                      *)
(*  - a dict is a function whose DOMAIN is the set of keys present.        *)
(*  - a value that may be None is None (<< >>) or Some(v) (<<v>>).         *)
(*  - time is not modelled: every datetime.now() reads the same instant,   *)
(*    NOW, so a timestamp field only tells whether it was ever stamped.    *)
(***************************************************************************)
EXTENDS Integers, Sequences, FiniteSets, TLC

VARIABLES
    store,                \* session store: session_id -> None or Some(persisted dict)
    flow_store,           \* flow definition store: the dict get_conversation_flow() returns
    firebase_flow_cache,  \* self.firebase_flow_cache (with self.cache_timestamp)
    gemini_available,     \* self.gemini_available, the process-wide flag
    leads,                \* lead store: the records passed to save_lead_data, in order
    sent,                 \* messaging transport: addresses a message was delivered to
    store_faults,         \* number of handler calls the session store has failed so far
    call,                 \* the last handler call: its arguments and what it observed
    result,               \* the value the last handler call returned
    tasks                 \* the process_message coroutines in flight: task id -> position and locals

vars == <<store, flow_store, firebase_flow_cache, gemini_available, leads, sent,
          store_faults, call, result, tasks>>

\* None, and a value that may be None: None is << >> and a present value v is
\* <<v>>, so that an optional value compares with None whatever its type.
None == << >>

Some(v) == <<v>>

\* ------------------------------------------------------------------ bounds

\* process_message is explored while the session's message_count is below
\* MaxCount, and on a turn routed to phone handling, which does not count.
MaxCount == 3

\* handle_phone_number_submission is explored while the lead store holds
\* fewer than MaxLeads records.
MaxLeads == 2

\* The session store fails (get_user_session or save_user_session raises) in
\* at most MaxStoreFaults handler calls of a behaviour.
MaxStoreFaults == 1

\* ----------------------------------------------------------------- strings

Whitespace == {" ", "\t", "\n"}

Digits == {"0", "1", "2", "3", "4", "5", "6", "7", "8", "9"}

UpperLetters ==
    <<"A", "B", "C", "D", "E", "F", "G", "H", "I", "J", "K", "L", "M",
      "N", "O", "P", "Q", "R", "S", "T", "U", "V", "W", "X", "Y", "Z",
      "U+00D3">>

LowerLetters ==
    <<"a", "b", "c", "d", "e", "f", "g", "h", "i", "j", "k", "l", "m",
      "n", "o", "p", "q", "r", "s", "t", "u", "v", "w", "x", "y", "z",
      "U+00F3">>

SetMin(S) == CHOOSE x \in S : \A y \in S : x <= y

SetMax(S) == CHOOSE x \in S : \A y \in S : x >= y

\* str.lower() on one character (the ASCII letters and o with acute accent
\* are the cased characters used; the symbols U+221A, U+2260, U+2265 and
\* U+00A3 of the source's keys are not cased).
lower_char(c) ==
    IF \E i \in DOMAIN UpperLetters : UpperLetters[i] = c
    THEN LowerLetters[CHOOSE i \in DOMAIN UpperLetters : UpperLetters[i] = c]
    ELSE c

upper_char(c) ==
    IF \E i \in DOMAIN LowerLetters : LowerLetters[i] = c
    THEN UpperLetters[CHOOSE i \in DOMAIN LowerLetters : LowerLetters[i] = c]
    ELSE c

is_cased(c) == \E i \in DOMAIN UpperLetters : UpperLetters[i] = c \/ LowerLetters[i] = c

\* str.upper()
upper(s) == [i \in 1..Len(s) |-> upper_char(s[i])]

\* str.lower()
lower(s) == [i \in 1..Len(s) |-> lower_char(s[i])]

\* str.title(): a cased character is upper-cased when it does not follow a
\* cased character and lower-cased when it does.
title(s) ==
    [i \in 1..Len(s) |->
        IF i > 1 /\ is_cased(s[i - 1]) THEN lower_char(s[i]) ELSE upper_char(s[i])]

\* str.strip()
strip(s) ==
    LET keep == {i \in 1..Len(s) : s[i] \notin Whitespace}
    IN  IF keep = {} THEN << >> ELSE SubSeq(s, SetMin(keep), SetMax(keep))

\* `kw in s` for strings
contains(s, kw) ==
    \E i \in 1..(Len(s) - Len(kw) + 1) : SubSeq(s, i, i + Len(kw) - 1) = kw

\* str.split(): the maximal runs of non-whitespace characters, as a set of
\* (first, last) index pairs; the code only counts and measures the words.
split(s) ==
    {p \in (1..Len(s)) \X (1..Len(s)) :
        /\ p[1] <= p[2]
        /\ \A i \in p[1]..p[2] : s[i] \notin Whitespace
        /\ (p[1] = 1 \/ s[p[1] - 1] \in Whitespace)
        /\ (p[2] = Len(s) \/ s[p[2] + 1] \in Whitespace)}

\* ''.join(filter(str.isdigit, s))
only_digits(s) == SelectSeq(s, LAMBDA c : c \in Digits)

\* dict.get(k, default)
Get(d, k, default) == IF k \in DOMAIN d THEN d[k] ELSE default

\* d[k] = v
Put(d, k, v) == [x \in (DOMAIN d) \cup {k} |-> IF x = k THEN v ELSE d[x]]

EmptyDict == [x \in {} |-> None]

\* datetime.now(timezone.utc)
NOW == "now"

\* ------------------------------------------------------- answer validation

\* _is_quota_error: the indicator list.
quota_indicators ==
    << <<"4", "2", "9">>,
       <<"q", "u", "o", "t", "a">>,
       <<"r", "a", "t", "e", " ", "l", "i", "m", "i", "t">>,
       <<"e", "x", "c", "e", "e", "d", "e", "d">>,
       <<"R", "e", "s", "o", "u", "r", "c", "e", "E", "x", "h", "a", "u", "s", "t", "e", "d">>,
       <<"b", "i", "l", "l", "i", "n", "g">>,
       <<"p", "l", "a", "n">>,
       <<"f", "r", "e", "e", " ", "t", "i", "e", "r">>,
       <<"r", "e", "q", "u", "e", "s", "t", "s", " ", "p", "e", "r", " ", "d", "a", "y">> >>

is_quota_error(error_message) ==
    \E k \in 1..Len(quota_indicators) :
        contains(lower(error_message), lower(quota_indicators[k]))

\* A faulty variant of is_phone_number, against which C11 is shown to depend
\* on it: only 12 digits look like a phone number.
is_phone_number_12(message) == Len(only_digits(message)) = 12

\* _is_phone_number
is_phone_number(message) ==
    LET clean_message == only_digits(message)
    IN  Len(clean_message) >= 10 /\ Len(clean_message) <= 13

\* _validate_and_normalize_answer: the area table of step 2, in dict order,
\* with the keys and labels exactly as the source file spells them.
area_map ==
    << << <<"p", "e", "n", "a", "l">>, <<"P", "e", "n", "a", "l">> >>,
       << <<"c", "r", "i", "m", "i", "n", "a", "l">>, <<"P", "e", "n", "a", "l">> >>,
       << <<"c", "r", "i", "m", "e">>, <<"P", "e", "n", "a", "l">> >>,
       << <<"c", "i", "v", "i", "l">>, <<"C", "i", "v", "i", "l">> >>,
       << <<"c", "i", "v", "e", "l">>, <<"C", "i", "v", "i", "l">> >>,
       << <<"t", "r", "a", "b", "a", "l", "h", "i", "s", "t", "a">>, <<"T", "r", "a", "b", "a", "l", "h", "i", "s", "t", "a">> >>,
       << <<"t", "r", "a", "b", "a", "l", "h", "o">>, <<"T", "r", "a", "b", "a", "l", "h", "i", "s", "t", "a">> >>,
       << <<"t", "r", "a", "b", "a", "l", "h", "a", "d", "o", "r">>, <<"T", "r", "a", "b", "a", "l", "h", "i", "s", "t", "a">> >>,
       << <<"f", "a", "m", "U+221A", "U+2260", "l", "i", "a">>, <<"F", "a", "m", "U+221A", "U+2260", "l", "i", "a">> >>,
       << <<"f", "a", "m", "i", "l", "i", "a">>, <<"F", "a", "m", "U+221A", "U+2260", "l", "i", "a">> >>,
       << <<"d", "i", "v", "U+221A", "U+2265", "r", "c", "i", "o">>, <<"F", "a", "m", "U+221A", "U+2260", "l", "i", "a">> >>,
       << <<"d", "i", "v", "o", "r", "c", "i", "o">>, <<"F", "a", "m", "U+221A", "U+2260", "l", "i", "a">> >>,
       << <<"c", "a", "s", "a", "m", "e", "n", "t", "o">>, <<"F", "a", "m", "U+221A", "U+2260", "l", "i", "a">> >>,
       << <<"e", "m", "p", "r", "e", "s", "a", "r", "i", "a", "l">>, <<"E", "m", "p", "r", "e", "s", "a", "r", "i", "a", "l">> >>,
       << <<"e", "m", "p", "r", "e", "s", "a">>, <<"E", "m", "p", "r", "e", "s", "a", "r", "i", "a", "l">> >>,
       << <<"c", "o", "m", "e", "r", "c", "i", "a", "l">>, <<"E", "m", "p", "r", "e", "s", "a", "r", "i", "a", "l">> >>,
       << <<"n", "e", "g", "U+221A", "U+2265", "c", "i", "o">>, <<"E", "m", "p", "r", "e", "s", "a", "r", "i", "a", "l">> >>,
       << <<"n", "e", "g", "o", "c", "i", "o">>, <<"E", "m", "p", "r", "e", "s", "a", "r", "i", "a", "l">> >> >>

\* _validate_and_normalize_answer: the word lists of step 4.
yes_words ==
    << <<"s", "i", "m">>,
       <<"y", "e", "s">>,
       <<"q", "u", "e", "r", "o">>,
       <<"g", "o", "s", "t", "a", "r", "i", "a">>,
       <<"a", "c", "e", "i", "t", "o">>,
       <<"o", "k">>,
       <<"p", "o", "d", "e">>,
       <<"c", "l", "a", "r", "o">> >>

no_words ==
    << <<"n", "U+221A", "U+00A3", "o">>,
       <<"n", "a", "o">>,
       <<"n", "o">>,
       <<"n", "o", "p", "e">>,
       <<"n", "U+221A", "U+00A3", "o", " ", "q", "u", "e", "r", "o">>,
       <<"n", "a", "o", " ", "q", "u", "e", "r", "o">> >>

\* _validate_and_normalize_answer
validate_and_normalize_answer(answer0, step_id) ==
    LET answer == strip(answer0)
        answer_lower == lower(answer)
        hits == {k \in 1..Len(area_map) : contains(answer_lower, area_map[k][1])}
    IN  CASE step_id = 1 -> answer
          [] step_id = 2 ->
                IF hits # {} THEN area_map[SetMin(hits)][2] ELSE title(answer)
          [] step_id = 3 -> answer
          [] step_id = 4 ->
                IF \E k \in 1..Len(yes_words) : contains(answer_lower, yes_words[k])
                THEN <<"S", "i", "m">>
                ELSE IF \E k \in 1..Len(no_words) : contains(answer_lower, no_words[k])
                     THEN <<"N", "U+221A", "U+00A3", "o">>
                     ELSE answer
          [] OTHER -> answer

\* A faulty variant of should_advance_step, against which C24 is shown to
\* depend on it: every non-blank answer is accepted.
should_advance_step_lenient(answer0, step_id) == Len(strip(answer0)) >= 1

\* A faulty variant of should_advance_step, against which C28 is shown to
\* depend on it: every answer of two characters or more is accepted.
should_advance_step_two_chars(answer0, step_id) == Len(strip(answer0)) >= 2

\* _should_advance_step
should_advance_step(answer0, step_id) ==
    LET answer == strip(answer0)
        words == split(answer)
    IN  IF Len(answer) < 1 THEN FALSE
        ELSE CASE step_id = 1 ->
                    /\ Cardinality(words) >= 2
                    /\ \A w \in words : w[2] - w[1] + 1 >= 2
               [] step_id = 2 -> Len(answer) >= 3
               [] step_id = 3 -> Len(answer) >= 5
               [] step_id = 4 -> Len(answer) >= 1
               [] OTHER -> Len(answer) >= 2

\* _get_validation_message
get_validation_message(step_id) ==
    CASE step_id = 1 -> <<"Por favor, informe seu nome completo (nome e sobrenome).">>
      [] step_id = 2 -> <<"Por favor, escolha uma das areas: Penal, Civil, Trabalhista, Familia ou Empresarial.">>
      [] step_id = 3 -> <<"Por favor, descreva sua situacao com mais detalhes (minimo 3 caracteres).">>
      [] step_id = 4 -> <<"Por favor, responda com 'Sim' ou 'Nao'.">>
      [] OTHER -> <<"Por favor, forneca uma resposta valida.">>

\* ------------------------------------------------------------ collaborators

\* Fixed texts of the source.
NAME_QUESTION == <<"Qual e o seu nome completo?">>

PHONE_REQUEST ==
    <<"Obrigado pelas informacoes! Para finalizar, preciso do seu numero de WhatsApp com DDD (exemplo: 11999999999):">>

INVALID_PHONE ==
    <<"Numero invalido. Por favor, digite no formato com DDD (exemplo: 11999999999):">>

PHONE_ERROR ==
    <<"Ocorreu um erro ao processar seu numero. Por favor, tente novamente ou entre em contato conosco diretamente.">>

INTERNAL_ERROR ==
    <<"Desculpe, ocorreu um erro interno. Nossa equipe foi notificada.">>

DEFAULT_COMPLETION ==
    <<"Perfeito! Suas informacoes foram registradas com sucesso. Nossa equipe entrara em contato em breve.">>

\* An exception: "" when none is raised, else what raised it (str(e)).
NoExc == ""

\* The step key f"step_{id}".
step_key(id) ==
    CASE id = 1 -> "step_1" [] id = 2 -> "step_2" [] id = 3 -> "step_3"
      [] id = 4 -> "step_4" [] id = 5 -> "step_5" [] id = 6 -> "step_6"
      [] OTHER -> "step_n"

\* The flow _get_firebase_flow returns when the flow store raises.
default_flow ==
    [steps |->
        << [id |-> 1, question |-> NAME_QUESTION],
           [id |-> 2, question |-> <<"Em qual area do direito voce precisa de ajuda?">>],
           [id |-> 3, question |-> <<"Descreva brevemente sua situacao.">>],
           [id |-> 4, question |-> <<"Gostaria de agendar uma consulta?">>] >>,
     completion_message |-> <<"Obrigado! Suas informacoes foram registradas.">>]

\* The working state of one handler call: the collaborators' state as the call
\* has left it so far, the working copy session_data (sd), the value returned
\* (ret), the exception raised (exc), and what the call observed: the
\* save_user_session call sites reached (saves), those that raised (faults),
\* whether the AI backend was called (attempted), the flow definition
\* _get_firebase_flow last returned to it (flow) and all those it returned,
\* in order (flows). pending is Some of the sorted steps and the current step
\* id while _get_fallback_response stands before its advance logic (line 376).
Ctx(sd) ==
    [store |-> store, cache |-> firebase_flow_cache, leads |-> leads, sent |-> sent,
     sd |-> sd, ret |-> None, exc |-> NoExc, saves |-> {}, faults |-> {},
     attempted |-> FALSE, flow |-> None, flows |-> << >>, pending |-> None]

Return(c, v) == [c EXCEPT !.ret = v]

\* Sequencing of two steps of a handler: the context the first step leaves is
\* computed once and the rest of the handler, F, continues from it.
Then(c, F(_)) == CHOOSE r \in {F(x) : x \in {c}} : TRUE

\* A faulty variant of save_user_session, against which C26 is shown to
\* depend on it: a lead_data entry the store already holds is kept, not
\* overwritten.
save_user_session_first_wins(c, session_id, site, env) ==
    LET old == IF c.store[session_id] = None THEN EmptyDict
               ELSE Get(c.store[session_id][1], "lead_data", EmptyDict)
        new == Get(c.sd, "lead_data", EmptyDict)
        merged == [k \in DOMAIN old \cup DOMAIN new |->
                      IF k \in DOMAIN old THEN old[k] ELSE new[k]]
    IN  [c EXCEPT !.store = [@ EXCEPT ![session_id] =
                                Some(Put(c.sd, "lead_data", merged))],
                  !.saves = @ \cup {site}]

\* save_user_session(session_id, session_data) called at line `site`: it raises
\* when the environment fails that call, else the store holds a copy of the
\* working copy.
save_user_session(c, session_id, site, env) ==
    IF site \in env.save_fails
    THEN [c EXCEPT !.exc = "save_user_session", !.saves = @ \cup {site},
                   !.faults = @ \cup {site}]
    ELSE [c EXCEPT !.store = [@ EXCEPT ![session_id] = Some(c.sd)],
                   !.saves = @ \cup {site}]

\* _get_firebase_flow: the cached flow unless there is none or it is older
\* than five minutes (fenv.expired); a fetch that raises (fenv.raises) yields
\* the default flow and leaves the cache as it was.
get_firebase_flow(c, fenv) ==
    IF c.cache = None \/ fenv.expired
    THEN IF fenv.raises
         THEN Return([c EXCEPT !.flow = Some(default_flow),
                               !.flows = Append(@, default_flow)], default_flow)
         ELSE Return([c EXCEPT !.cache = Some(flow_store), !.flow = Some(flow_store),
                               !.flows = Append(@, flow_store)],
                     flow_store)
    ELSE Return([c EXCEPT !.flow = c.cache, !.flows = Append(@, c.cache[1])],
                c.cache[1])

\* A faulty variant of sorted_steps, against which C18 is shown to depend on
\* it: the steps are left in array order.
unsorted_steps(steps) == steps

\* sorted(steps, key=lambda x: x.get("id", 0)): a stable sort.
sorted_steps(steps) ==
    LET n == Len(steps)
        rank(i) == 1 + Cardinality({j \in 1..n :
                        \/ steps[j].id < steps[i].id
                        \/ (steps[j].id = steps[i].id /\ j < i)})
    IN  [k \in 1..n |-> steps[CHOOSE i \in 1..n : rank(i) = k]]

\* next((s for s in steps if s["id"] == id), None)
find_step(steps, id) ==
    LET at == {i \in 1..Len(steps) : steps[i].id = id}
    IN  IF at = {} THEN None ELSE Some(steps[SetMin(at)])

\* _mark_gemini_unavailable
mark_gemini_unavailable(c, session_id, env) ==
    LET sd1 == Put(Put(c.sd, "gemini_available", FALSE), "last_gemini_check", Some(NOW))
    IN  save_user_session([c EXCEPT !.sd = sd1], session_id, "L271", env)

\* The validation of a returned AI answer (lines 227-230).
valid_gemini_response(gemini_response) ==
    /\ gemini_response # None
    /\ gemini_response[1] # << >>
    /\ strip(gemini_response[1]) # << >>
    /\ ~is_quota_error(gemini_response[1])

\* A faulty variant of session_gemini_available, against which C27 is shown
\* to depend on it: the process-wide flag gates the AI attempt.
process_gemini_available(session_data) == gemini_available

\* session_data.get("gemini_available", True), the gate of line 198.
session_gemini_available(session_data) == Get(session_data, "gemini_available", TRUE)

\* get_gemini_health_status, given what the test call of the AI backend does:
\* the value of self.gemini_available it leaves and the dict it returns.
get_gemini_health_status(ai) ==
    CASE ai.kind = "return" ->
            IF ai.value # None /\ ai.value[1] # << >> /\ strip(ai.value[1]) # << >>
            THEN [flag |-> TRUE,
                  ret |-> [service |-> "gemini_ai", status |-> "active",
                           available |-> TRUE,
                           message |-> <<"Gemini AI is operational">>]]
            ELSE [flag |-> FALSE,
                  ret |-> [service |-> "gemini_ai", status |-> "inactive",
                           available |-> FALSE,
                           message |-> <<"Gemini AI returned invalid response">>]]
      [] ai.kind = "timeout" ->
            [flag |-> FALSE,
             ret |-> [service |-> "gemini_ai", status |-> "inactive",
                      available |-> FALSE,
                      message |-> <<"Gemini AI timeout - likely quota exceeded">>]]
      [] OTHER ->
            [flag |-> FALSE,
             ret |-> [service |-> "gemini_ai",
                      status |-> IF is_quota_error(lower(ai.value[1]))
                                 THEN "quota_exceeded" ELSE "error",
                      available |-> FALSE,
                      message |-> (IF is_quota_error(lower(ai.value[1]))
                                   THEN <<"Gemini API quota exceeded: ">>
                                   ELSE <<"Gemini AI error: ">>) \o ai.value[1]]]

\* _attempt_gemini_response: ret is Some(answer) or None.
attempt_gemini_response(c, message, session_id, env) ==
    IF ~session_gemini_available(c.sd)
    THEN Return(c, None)
    ELSE LET c1 == [c EXCEPT !.attempted = TRUE]
         IN  CASE env.ai.kind = "return" ->
                    IF valid_gemini_response(env.ai.value)
                    THEN IF ~Get(c1.sd, "gemini_available", TRUE)
                         THEN LET sd1 == Put(Put(c1.sd, "gemini_available", TRUE),
                                             "last_gemini_check", Some(NOW))
                                  c2 == save_user_session([c1 EXCEPT !.sd = sd1],
                                                          session_id, "L238", env)
                              IN  IF c2.exc # NoExc
                                  THEN Return(mark_gemini_unavailable(
                                           [c2 EXCEPT !.exc = NoExc], session_id, env), None)
                                  ELSE Return(c2, env.ai.value)
                         ELSE Return(c1, env.ai.value)
                    ELSE Return(c1, None)
                [] OTHER ->  \* asyncio.TimeoutError, or any other exception
                    Return(mark_gemini_unavailable(c1, session_id, env), None)

\* The question _get_fallback_response returns with fallback_step set to 1:
\* step 1's, or the fixed name question when the flow has no step 1.
first_question(steps) ==
    LET first_step == find_step(steps, 1)
    IN  IF first_step # None THEN first_step[1].question ELSE NAME_QUESTION

\* Two faulty variants of next_step_id_of, against which C1 and C6 are
\* shown to depend on it: the lookup skips an id; the lookup goes back from
\* step 2 to step 1.
next_step_id_skipping(current_step_id) == current_step_id + 2

next_step_id_back(current_step_id) ==
    IF current_step_id = 2 THEN 1 ELSE current_step_id + 1

\* The id of the step looked up after step current_step_id (line 377).
next_step_id_of(current_step_id) == current_step_id + 1

\* _get_fallback_response, lines 376-391: advance to the next step or complete.
advance_step(c, steps, current_step_id, session_id, env) ==
    LET next_step_id == next_step_id_of(current_step_id)
        next_step == find_step(steps, next_step_id)
    IN  IF next_step # None
        THEN LET c1 == save_user_session(
                           [c EXCEPT !.sd = Put(@, "fallback_step", Some(next_step_id))],
                           session_id, "L383", env)
             IN  IF c1.exc # NoExc THEN c1 ELSE Return(c1, next_step[1].question)
        ELSE LET c1 == save_user_session(
                           [c EXCEPT !.sd = Put(@, "fallback_completed", TRUE)],
                           session_id, "L389", env)
             IN  IF c1.exc # NoExc THEN c1 ELSE Return(c1, PHONE_REQUEST)

\* A faulty variant of already_answered, against which C25 is shown to depend
\* on it: a stored answer is never found.
already_answered_never(lead_data, key) == FALSE

\* `step_key in lead_data` (line 355).
already_answered(lead_data, key) == key \in DOMAIN lead_data

\* A faulty variant of initial_lead_data, against which C23 is shown to depend
\* on it: activation leaves an answer for step 1 behind.
initial_lead_data_answered == [k \in {"step_1"} |-> <<"o", "k">>]

\* The lead_data activation starts the flow with (line 327).
initial_lead_data == EmptyDict

\* _get_fallback_response, lines 310-374 and 393-394 of its try block: up to
\* the stored answer; pending is set where the advance logic comes next.
fallback_answer(c, message, env) ==
    LET session_id == c.sd.session_id
        c0 == get_firebase_flow(c, env.flow1)
        flow == c0.ret
        steps == sorted_steps(Get(flow, "steps", << >>))
    IN  IF Get(flow, "steps", << >>) = << >>
        THEN Return(c0, NAME_QUESTION)
        ELSE IF Get(c0.sd, "fallback_step", None) = None
        THEN LET sd1 == Put(Put(c0.sd, "fallback_step", Some(1)), "lead_data",
                        initial_lead_data)
                 c1 == save_user_session([c0 EXCEPT !.sd = sd1], session_id, "L328", env)
             IN  IF c1.exc # NoExc THEN c1 ELSE Return(c1, first_question(steps))
        ELSE
        LET current_step_id == c0.sd.fallback_step[1]
            lead_data == Get(c0.sd, "lead_data", EmptyDict)
            current_step == find_step(steps, current_step_id)
            key == step_key(current_step_id)
        IN  IF current_step = None
            THEN LET c1 == save_user_session(
                               [c0 EXCEPT !.sd = Put(@, "fallback_step", Some(1))],
                               session_id, "L346", env)
                 IN  IF c1.exc # NoExc THEN c1 ELSE Return(c1, first_question(steps))
            ELSE IF message # << >> /\ strip(message) # << >>
            THEN IF already_answered(lead_data, key)
                 THEN [c0 EXCEPT !.pending = Some([steps |-> steps,
                                                   current_step_id |-> current_step_id])]
                 ELSE LET normalized_answer ==
                              validate_and_normalize_answer(message, current_step_id)
                      IN  IF ~should_advance_step(normalized_answer, current_step_id)
                          THEN Return(c0, get_validation_message(current_step_id)
                                          \o <<"\n\n">> \o current_step[1].question)
                          ELSE LET sd1 == Put(c0.sd, "lead_data",
                                              Put(lead_data, key, normalized_answer))
                                   c1 == save_user_session([c0 EXCEPT !.sd = sd1],
                                                           session_id, "L372", env)
                               IN  IF c1.exc # NoExc THEN c1
                                   ELSE [c1 EXCEPT !.pending =
                                            Some([steps |-> steps,
                                                  current_step_id |-> current_step_id])]
            ELSE Return(c0, current_step[1].question)

\* _get_fallback_response, lines 376-391 after fallback_answer.
fallback_advance(c, env) ==
    advance_step([c EXCEPT !.pending = None], c.pending[1].steps,
                 c.pending[1].current_step_id, c.sd.session_id, env)

\* _get_fallback_response, the body of its try block (lines 310-394).
fallback_body(c, message, env) ==
    Then(fallback_answer(c, message, env), LAMBDA c1 :
        IF c1.pending # None THEN fallback_advance(c1, env) ELSE c1)

\* _get_fallback_response: any exception of the body is caught and answered
\* with the fixed name question (lines 396-399).
get_fallback_response(c, message, env) ==
    Then(fallback_body(c, message, env), LAMBDA c1 :
        IF c1.exc # NoExc
        THEN Return([c1 EXCEPT !.exc = NoExc], NAME_QUESTION)
        ELSE c1)

\* A faulty variant of format_phone, against which C17 is shown to depend on
\* it: the country code is prepended whatever the digits are.
format_phone_prepend(phone_clean) == <<"5", "5">> \o phone_clean

\* The dialable handle of a cleaned phone number (lines 512-519).
format_phone(phone_clean) ==
    IF Len(phone_clean) = 10
    THEN <<"5", "5">> \o SubSeq(phone_clean, 1, 2) \o <<"9">>
         \o SubSeq(phone_clean, 3, Len(phone_clean))
    ELSE IF Len(phone_clean) = 11
    THEN <<"5", "5">> \o phone_clean
    ELSE IF SubSeq(phone_clean, 1, 2) = <<"5", "5">>
    THEN phone_clean
    ELSE <<"5", "5">> \o phone_clean

\* The answers of the lead record (lines 535-551).
lead_answers(lead_data, steps, phone_clean) ==
    LET ordered == sorted_steps(steps)
        stored == SelectSeq(ordered,
                      LAMBDA st : Get(lead_data, step_key(st.id), << >>) # << >>)
    IN  [k \in 1..Len(stored) |->
            [id |-> stored[k].id, answer |-> lead_data[step_key(stored[k].id)]]]
        \o (IF phone_clean # << >>
            THEN << [id |-> Len(steps) + 1, answer |-> phone_clean] >>
            ELSE << >>)

\* The transport address of the law firm (line 600).
law_firm_whatsapp == <<"555511918368812@s.whatsapp.net">>

MESSAGE_SENT == <<"Mensagem enviada para seu WhatsApp!">>

\* A faulty variant of MESSAGE_PROBLEM, against which C13 is shown to depend
\* on it: the notice of a failed dispatch reads like that of a successful one.
MESSAGE_PROBLEM_as_sent == <<"Mensagem enviada para seu WhatsApp!">>

MESSAGE_PROBLEM ==
    <<"Houve um problema ao enviar a mensagem do WhatsApp, mas suas informacoes foram salvas.">>

\* _handle_phone_collection, the body of its try block (lines 504-622).
phone_body(c, phone_message, session_id, env) ==
    LET phone_clean == only_digits(phone_message)
        phone_formatted == format_phone(phone_clean)
        whatsapp_number == phone_formatted \o <<"@s.whatsapp.net">>
        sd1 == Put(Put(Put(Put(c.sd, "phone_number", phone_clean),
                           "phone_formatted", phone_formatted),
                       "phone_submitted", TRUE),
                   "last_updated", Some(NOW))
    IN  IF Len(phone_clean) < 10 \/ Len(phone_clean) > 13
        THEN Return(c, INVALID_PHONE)
        ELSE IF "lead_data" \notin DOMAIN sd1
        THEN [c EXCEPT !.sd = sd1, !.exc = "KeyError: 'lead_data'"]
        ELSE
        LET sd2 == Put(sd1, "lead_data", Put(sd1.lead_data, "phone", phone_clean))
            c1 == save_user_session([c EXCEPT !.sd = sd2], session_id, "L533", env)
            c2 == get_firebase_flow(c1, env.flow1)
            steps == Get(c2.ret, "steps", << >>)
            answers == lead_answers(sd2.lead_data, steps, phone_clean)
            c3 == IF env.lead_fails THEN c2
                  ELSE [c2 EXCEPT !.leads = Append(@, [answers |-> answers])]
            c4 == CASE env.send = "ok" ->
                          [c3 EXCEPT !.sent = @ \cup {whatsapp_number, law_firm_whatsapp}]
                    [] env.send = "second_fails" ->
                          [c3 EXCEPT !.sent = @ \cup {whatsapp_number}]
                    [] OTHER -> c3
            whatsapp_success == env.send = "ok"
            c5 == get_firebase_flow(c4, env.flow2)
            completion_message == Get(c5.ret, "completion_message", DEFAULT_COMPLETION)
            final_message ==
                <<"Numero confirmado: ">> \o phone_clean \o <<"\n\n">>
                \o completion_message \o <<"\n\n">>
                \o (IF whatsapp_success THEN MESSAGE_SENT ELSE MESSAGE_PROBLEM)
        IN  IF c1.exc # NoExc THEN c1 ELSE Return(c5, final_message)

\* _handle_phone_collection: any exception of the body is caught and answered
\* with a fixed text (lines 624-626).
handle_phone_collection(c, phone_message, session_id, env) ==
    Then(phone_body(c, phone_message, session_id, env), LAMBDA c1 :
        IF c1.exc # NoExc
        THEN Return([c1 EXCEPT !.exc = NoExc], PHONE_ERROR)
        ELSE c1)

\* A faulty variant of get_or_create_session, against which C21 is shown to
\* depend on it: the stored session is ignored and a new one is made.
get_or_create_session_anew(stored, session_id, platform, phone_number) ==
    [session_id |-> session_id,
     platform |-> platform,
     created_at |-> Some(NOW),
     lead_data |-> EmptyDict,
     message_count |-> 0,
     fallback_step |-> None,
     phone_submitted |-> FALSE,
     gemini_available |-> TRUE,
     last_gemini_check |-> None,
     fallback_completed |-> FALSE]

\* _get_or_create_session, given what get_user_session returned.
get_or_create_session(stored, session_id, platform, phone_number) ==
    LET session_data ==
            IF stored # None /\ stored[1] # EmptyDict
            THEN stored[1]
            ELSE [session_id |-> session_id,
                  platform |-> platform,
                  created_at |-> Some(NOW),
                  lead_data |-> EmptyDict,
                  message_count |-> 0,
                  fallback_step |-> None,
                  phone_submitted |-> FALSE,
                  gemini_available |-> TRUE,
                  last_gemini_check |-> None,
                  fallback_completed |-> FALSE]
    IN  IF phone_number # None /\ phone_number[1] # << >>
        THEN Put(session_data, "phone_number", phone_number[1])
        ELSE session_data

\* process_message, the result of the top-level except (lines 702-710).
error_result(c, session_id, platform) ==
    Return([c EXCEPT !.exc = NoExc],
           [response_type |-> "error",
            platform |-> platform,
            session_id |-> session_id,
            response |-> INTERNAL_ERROR,
            error |-> c.exc])

\* process_message, lines 663-666 and 684-687: the turn is written to the
\* working copy.
finish(cx, message, response) ==
    [cx EXCEPT !.sd =
        Put(Put(Put(Put(@, "last_message", message),
                    "last_response", response),
                "last_updated", Some(NOW)),
            "message_count", Get(cx.sd, "message_count", 0) + 1)]

\* process_message, lines 683-700: the end of a fallback turn, c1.ret being
\* the fallback response.
fallback_turn_end(c1, message, session_id, platform, env) ==
    Then(save_user_session(finish(c1, message, c1.ret), session_id, "L688", env),
         LAMBDA c2 :
        IF c2.exc # NoExc THEN c2
        ELSE Return(c2,
               [response_type |-> "fallback_firebase",
                platform |-> platform,
                session_id |-> session_id,
                response |-> c1.ret,
                ai_mode |-> FALSE,
                gemini_available |-> FALSE,
                fallback_step |-> Get(c2.sd, "fallback_step", None),
                fallback_completed |-> Get(c2.sd, "fallback_completed", FALSE),
                message_count |-> Get(c2.sd, "message_count", 1)]))

\* process_message, lines 661-700: the turn after the AI attempt.
answer_turn(c, message, session_id, platform, env) ==
    LET ai_response == c.ret
    IN  IF ai_response # None /\ ai_response[1] # << >>
        THEN Then(save_user_session(finish(c, message, ai_response[1]), session_id,
                                    "L667", env),
                  LAMBDA c1 :
                 IF c1.exc # NoExc THEN c1
                 ELSE Return(c1,
                        [response_type |-> "ai_intelligent",
                         platform |-> platform,
                         session_id |-> session_id,
                         response |-> ai_response[1],
                         ai_mode |-> TRUE,
                         gemini_available |-> TRUE,
                         message_count |-> Get(c1.sd, "message_count", 1)]))
        ELSE Then(get_fallback_response(c, message, env), LAMBDA c1 :
                 fallback_turn_end(c1, message, session_id, platform, env))

\* Whether process_message routes the message to phone handling (lines 644-646).
phone_turn(session_data, message) ==
    /\ Get(session_data, "fallback_completed", FALSE)
    /\ ~Get(session_data, "phone_submitted", FALSE)
    /\ is_phone_number(message)

\* process_message: the context after the call, with ret the returned dict.
process_message(message, session_id, phone_number, platform, env) ==
    IF env.get_fails
    THEN error_result([Ctx(EmptyDict) EXCEPT !.exc = "get_user_session",
                                             !.faults = {"L157"}],
                      session_id, platform)
    ELSE
    Then(Ctx(get_or_create_session(store[session_id], session_id, platform,
                                   phone_number)), LAMBDA c :
        IF phone_turn(c.sd, message)
        THEN Then(handle_phone_collection(c, message, session_id, env), LAMBDA c1 :
                 Return(c1,
                    [response_type |-> "phone_collected_fallback",
                     platform |-> platform,
                     session_id |-> session_id,
                     response |-> c1.ret,
                     phone_submitted |-> TRUE,
                     message_count |-> Get(c1.sd, "message_count", 0) + 1]))
        ELSE Then(attempt_gemini_response(c, message, session_id, env), LAMBDA c1 :
             Then(IF c1.exc # NoExc THEN c1
                  ELSE answer_turn(c1, message, session_id, platform, env), LAMBDA c2 :
                 IF c2.exc # NoExc THEN error_result(c2, session_id, platform) ELSE c2)))

\* handle_phone_number_submission: the context after the call.
handle_phone_number_submission(phone_number, session_id, env) ==
    IF env.get_fails
    THEN Return([Ctx(EmptyDict) EXCEPT !.faults = {"L721"}],
                [status |-> "error",
                 message |-> <<"Erro ao processar numero de WhatsApp">>,
                 error |-> "get_user_session"])
    ELSE
    LET stored == store[session_id]
        session_data == IF stored # None THEN stored[1] ELSE EmptyDict
    IN  Then(handle_phone_collection(Ctx(session_data), phone_number, session_id, env),
             LAMBDA c1 :
                 Return(c1, [status |-> "success", message |-> c1.ret,
                             phone_submitted |-> TRUE]))

\* ------------------------------------------------------------------ inputs

Sessions == {"A", "B"}

\* The platform each session's caller passes.
platform_of(session_id) == IF session_id = "A" THEN "web" ELSE "whatsapp"

\* User messages: empty, blank, a word of two letters, a first and last name,
\* an 11-digit phone number.
Messages ==
    { << >>,
      <<" ">>,
      <<"o", "k">>,
      <<"A", "n", "a", " ", "L", "i">>,
      <<"1", "1", "9", "8", "7", "6", "5", "4", "3", "2", "1">> }

\* What ai_orchestrator.generate_response does on a call: it times out, it
\* raises (value: the error text), or it returns a str.
AIOutcomes ==
    { [kind |-> "timeout", value |-> None],
      [kind |-> "raise", value |-> Some(<<"4", "2", "9">>)],
      [kind |-> "return", value |-> Some(<< >>)],
      [kind |-> "return", value |-> Some(<<"q", "u", "o", "t", "a">>)],
      [kind |-> "return", value |-> Some(<<"O", "l", "a">>)] }

\* The save_user_session call sites, by source line.
SaveSites ==
    {"L238", "L271", "L328", "L346", "L372", "L383", "L389", "L533", "L667", "L688"}

\* _get_firebase_flow's environment: the cache is fresh and a fetch succeeds,
\* or the cache has expired and the fetch raises.
FlowEnvs ==
    { [expired |-> FALSE, raises |-> FALSE],
      [expired |-> TRUE, raises |-> TRUE] }

SendOutcomes == {"ok", "first_fails", "second_fails"}

\* A question text of the flow store.
question_text(id) ==
    CASE id = 1 -> <<"Pergunta 1?">> [] id = 2 -> <<"Pergunta 2?">>
      [] id = 3 -> <<"Pergunta 3?">> [] id = 4 -> <<"Pergunta 4?">>
      [] OTHER -> <<"Pergunta n?">>

\* A flow definition whose steps have the given ids, in the given array order.
flow_of(ids) ==
    [steps |-> [k \in 1..Len(ids) |-> [id |-> ids[k], question |-> question_text(ids[k])]],
     completion_message |-> <<"Obrigado!">>]

\* The flow definitions the flow store can hold: one step and no
\* completion_message, contiguous ids, ids with a gap stored out of order, ids
\* that do not start at 1, steps with an empty question, no steps.
Flows ==
    { [steps |-> << [id |-> 1, question |-> question_text(1)] >>],
      flow_of(<<1, 2>>),
      flow_of(<<3, 1>>),
      flow_of(<<2, 3>>),
      [steps |-> << [id |-> 1, question |-> << >>], [id |-> 2, question |-> << >>] >>,
       completion_message |-> <<"Obrigado!">>],
      [steps |-> << >>, completion_message |-> <<"Obrigado!">>] }

\* The environment of a handler call in which nothing fails: the AI backend
\* answers, the stores and the transport work, the flow cache is fresh.
BaseEnv ==
    [get_fails |-> FALSE, save_fails |-> {},
     ai |-> [kind |-> "return", value |-> Some(<<"O", "l", "a">>)],
     flow1 |-> [expired |-> FALSE, raises |-> FALSE],
     flow2 |-> [expired |-> FALSE, raises |-> FALSE],
     lead_fails |-> FALSE, send |-> "ok"]

FlowDown == [expired |-> TRUE, raises |-> TRUE]

AITimeout == [kind |-> "timeout", value |-> None]

\* The environments of a call of _handle_phone_collection: the session store
\* fails the write; or it works and the lead store and the transport each
\* work or fail; or it works and the flow store is down at either reading of
\* the flow.
PhoneEnvs ==
    {[BaseEnv EXCEPT !.save_fails = {"L533"}]}
    \cup {[BaseEnv EXCEPT !.lead_fails = l, !.send = s] :
             l \in BOOLEAN, s \in SendOutcomes}
    \cup {[BaseEnv EXCEPT !.flow1 = f1, !.flow2 = f2] : f1 \in FlowEnvs, f2 \in FlowEnvs}

\* The persisted session of session_id ({} when there is none).
persisted(session_id) ==
    IF store[session_id] = None THEN EmptyDict ELSE store[session_id][1]

\* Whether the session store fails in the environment.
store_fails(env) == env.get_fails \/ env.save_fails # {}

\* The environments of a call of process_message in which the session store
\* fails: get_user_session raises; or the AI backend answers and the save of
\* the turn raises; or the AI backend times out and one of the
\* save_user_session calls the turn then reaches, or every one, raises.
StoreFaultEnvs(message, session_id) ==
    LET timed_out == [BaseEnv EXCEPT !.ai = AITimeout]
    IN  {[BaseEnv EXCEPT !.get_fails = TRUE], [BaseEnv EXCEPT !.save_fails = {"L667"}]}
        \cup UNION {{[timed_out EXCEPT !.save_fails = f] :
                        f \in {SaveSites} \cup {{site} : site \in c.saves}} :
                    c \in {process_message(message, session_id, None,
                                           platform_of(session_id), timed_out)}}

\* The environments of a call of process_message in which the session store
\* works, as far as the call can observe them: the turn is routed to phone
\* handling; or the AI backend is called (any outcome) or is skipped (it
\* would have answered, or not), with the flow store up, or down while the
\* AI backend times out.
WorkingEnvs(message, session_id) ==
    LET sd == persisted(session_id)
        ais == IF Get(sd, "gemini_available", TRUE)
               THEN AIOutcomes ELSE {AITimeout, BaseEnv.ai}
    IN  IF phone_turn(sd, message)
        THEN PhoneEnvs \ {e \in PhoneEnvs : store_fails(e)}
        ELSE {[BaseEnv EXCEPT !.ai = a] : a \in ais}
             \cup {[BaseEnv EXCEPT !.ai = AITimeout, !.flow1 = FlowDown]}

ProcessEnvs(message, session_id) ==
    WorkingEnvs(message, session_id)
    \cup (IF store_faults < MaxStoreFaults
          THEN StoreFaultEnvs(message, session_id) ELSE {})

\* ------------------------------------------------------------------ actions

\* The process_message coroutines that may be in flight at once, and the
\* state of one that is not running.
TaskIds == {1, 2}

Idle == [pc |-> "idle"]

\* The state after construction, whatever the flow store holds.
Constructed ==
    /\ store = [s \in Sessions |-> None]
    /\ firebase_flow_cache = None
    /\ gemini_available = TRUE
    /\ leads = << >>
    /\ sent = {}
    /\ store_faults = 0
    /\ call = [op |-> "init"]
    /\ result = EmptyDict
    /\ tasks = [t \in TaskIds |-> Idle]

Init ==
    /\ flow_store \in Flows
    /\ Constructed

\* One call of process_message(message, session_id, platform=platform).
ProcessMessage(session_id, message, env) ==
    /\ \/ Get(persisted(session_id), "message_count", 0) < MaxCount
       \/ phone_turn(persisted(session_id), message)
    /\ \E c \in {process_message(message, session_id, None, platform_of(session_id), env)} :
           /\ store' = c.store
           /\ firebase_flow_cache' = c.cache
           /\ leads' = c.leads
           /\ sent' = c.sent
           /\ result' = c.ret
           /\ call' = [op |-> "process_message", session_id |-> session_id,
                       message |-> message, ai |-> env.ai,
                       attempted |-> c.attempted, faults |-> c.faults,
                       flow |-> c.flow, flows |-> c.flows,
                       lead_fails |-> env.lead_fails, send |-> env.send]
    /\ store_faults' = store_faults + (IF store_fails(env) THEN 1 ELSE 0)
    /\ UNCHANGED <<flow_store, gemini_available, tasks>>

\* One call of handle_phone_number_submission(phone_number, session_id).
HandlePhoneNumberSubmission(session_id, phone_number, env) ==
    /\ Len(leads) < MaxLeads
    /\ \E c \in {handle_phone_number_submission(phone_number, session_id, env)} :
           /\ store' = c.store
           /\ firebase_flow_cache' = c.cache
           /\ leads' = c.leads
           /\ sent' = c.sent
           /\ result' = c.ret
           /\ call' = [op |-> "handle_phone_number_submission",
                       session_id |-> session_id, message |-> phone_number,
                       faults |-> c.faults, flow |-> c.flow, flows |-> c.flows,
                       lead_fails |-> env.lead_fails, send |-> env.send]
    /\ store_faults' = store_faults + (IF store_fails(env) THEN 1 ELSE 0)
    /\ UNCHANGED <<flow_store, gemini_available, tasks>>

Next ==
    \E message \in Messages :
        \E env \in ProcessEnvs(message, "A") :
            ProcessMessage("A", message, env)

Spec == Init /\ [][Next]_vars

\* ------------------------------------------- the end-to-end specification

\* A fixed flow has at most MaxSteps steps.
MaxSteps == 2

\* The fixed flow with step ids 1..n.
fixed_flow(n) == flow_of([k \in 1..n |-> k])

\* The outcomes of an AI call that is not an accepted answer.
FailingAI == {ai \in AIOutcomes : ai.kind # "return" \/ ~valid_gemini_response(ai.value)}

InitE2E ==
    /\ flow_store \in {fixed_flow(n) : n \in 1..MaxSteps}
    /\ Constructed

\* A turn with a working session store and flow store and a failing AI backend.
FailingAITurn ==
    \E message \in Messages :
        \E ai \in FailingAI :
            ProcessMessage("A", message, [BaseEnv EXCEPT !.ai = ai])

NextE2E == FailingAITurn

SpecE2E == InitE2E /\ [][NextE2E]_vars

\* ------------------------------------------------------------ observations

\* The step ids of the flow definition in the flow store.
flow_ids == {flow_store.steps[k].id : k \in 1..Len(flow_store.steps)}

\* The question of the step with the given id in the flow store.
question_of(id) == find_step(flow_store.steps, id)[1].question

\* Whether message is an answer the engine accepts at step step_id.
valid_answer(message, step_id) ==
    /\ strip(message) # << >>
    /\ should_advance_step(validate_and_normalize_answer(message, step_id), step_id)

\* ------------------------------------------------------------------ claims

\* The condition C1 puts on a step of the program.
E2EStep ==
    LET before == persisted("A")
        after == store'["A"][1]
        message == call'.message
        s == before.fallback_step[1]
    IN  /\ store'["A"] # None
        /\ store["A"] = None =>
              /\ result'.response = question_of(SetMin(flow_ids))
              /\ after.fallback_step = Some(SetMin(flow_ids))
        /\ store["A"] # None /\ ~before.fallback_completed /\ valid_answer(message, s) =>
              IF s + 1 \in flow_ids
              THEN /\ result'.response = question_of(s + 1)
                   /\ after.fallback_step = Some(s + 1)
                   /\ ~after.fallback_completed
              ELSE /\ result'.response = PHONE_REQUEST
                   /\ after.fallback_completed
        /\ /\ store["A"] # None
           /\ before.fallback_completed
           /\ ~before.phone_submitted
           /\ Len(message) = 11
           /\ only_digits(message) = message
           => /\ result'.response_type = "phone_collected_fallback"
              /\ contains(result'.response, message)
              /\ after.phone_submitted

\* C1: with a working session store, a fixed flow 1..n and an AI backend that
\* fails on every turn, the first turn of a new session returns the step-1
\* question and sets fallback_step to the lowest id; a turn with a valid
\* answer to step s returns the question of step s+1, or, at the last step,
\* the phone-request prompt with fallback_completed set; the following turn
\* with an 11-digit message is tagged as phone collection, its confirmation
\* contains the digits, and phone_submitted is set.
C1_EndToEnd == [][E2EStep]_vars

\* C1 (witness): a two-step flow has been walked to the phone confirmation.
C1_Witness ==
    /\ Len(flow_store.steps) > 1
    /\ persisted("A") # EmptyDict
    /\ persisted("A").phone_submitted
    /\ DOMAIN persisted("A").lead_data = {"step_1", "step_2", "phone"}
    /\ result.response_type = "phone_collected_fallback"

\* The step ids of the flow definition the last call worked with.
ids_of(flow) == {flow.steps[k].id : k \in 1..Len(flow.steps)}

\* A turn of process_message on session "A" has just run and no call of the
\* session store failed in it.
Turn == call'.op = "process_message" /\ call'.faults = {}

\* C2: the result of every process_message turn carries a non-empty response.
C2_NonEmptyResponse ==
    call.op = "process_message" => result.response # << >>

\* C3: the result of every process_message turn contains response_type,
\* platform, session_id, response and message_count.
C3_ResultFields ==
    call.op = "process_message" =>
        {"response_type", "platform", "session_id", "response", "message_count"}
            \subseteq DOMAIN result

\* The condition C4 puts on a step of the program.
C4_Step ==
    /\ Turn
    /\ persisted("A") # EmptyDict
    /\ ~persisted("A").gemini_available
    /\ ~phone_turn(persisted("A"), call'.message)
    /\ call'.ai.kind = "return" /\ valid_gemini_response(call'.ai.value)
    => /\ result'.response_type = "ai_intelligent"
       /\ store'["A"][1].gemini_available

\* C4: when a failure has been recorded for the session (gemini_available is
\* false), a turn on which the AI backend would return a valid answer and
\* which is not routed to phone handling restores gemini_available and is
\* answered with response_type ai_intelligent.
C4_SelfHealing == [][C4_Step]_vars

\* The condition C5 puts on a step of the program.
C5_Step ==
    Turn /\ call'.attempted /\ call'.ai \in FailingAI
    => /\ ~store'["A"][1].gemini_available
       /\ store'["A"][1].last_gemini_check # None
       /\ result'.response_type = "fallback_firebase"
       /\ store'["A"][1].message_count = Get(persisted("A"), "message_count", 0) + 1
       /\ result'.message_count = store'["A"][1].message_count

\* C5: a turn whose AI attempt does not produce an accepted answer records
\* the failure (gemini_available false, last_gemini_check stamped), is
\* tagged fallback_firebase, and persists message_count incremented by one.
C5_FailureRecorded == [][C5_Step]_vars

\* The condition C6 puts on a step of the program.
C6_Step ==
    LET before == persisted("A")
        after == store'["A"][1]
    IN  call'.op = "process_message" /\ Get(before, "fallback_step", None) # None
        => /\ after.fallback_step # None
           /\ after.fallback_step[1] < before.fallback_step[1]
              => /\ after.fallback_step = Some(1)
                 /\ call'.flow # None
                 /\ find_step(call'.flow[1].steps, before.fallback_step[1]) = None

\* C6: once fallback is activated, no process_message turn lowers the
\* persisted fallback_step, except that a turn which does not find the
\* current step id in the flow definition sets it to the first step, 1.
C6_StepNeverDecreases == [][C6_Step]_vars

\* C6 (witness): the session had answered step 1 and moved on, and a turn
\* that did not find its step in the flow definition has set it back to 1.
C6_Witness ==
    /\ store_faults = 0
    /\ call.op = "process_message"
    /\ result.response_type = "fallback_firebase"
    /\ persisted("A").fallback_step = Some(1)
    /\ "step_1" \in DOMAIN persisted("A").lead_data
    /\ ~persisted("A").fallback_completed
    /\ strip(call.message) # << >>

\* A fallback turn in which the session, at step s of a flow definition with
\* unique ids, gives a valid answer to s for the first time.
answers_step(before, message, flow) ==
    /\ Get(before, "fallback_step", None) # None
    /\ ~Get(before, "fallback_completed", FALSE)
    /\ Cardinality(ids_of(flow)) = Len(flow.steps)
    /\ before.fallback_step[1] \in ids_of(flow)
    /\ step_key(before.fallback_step[1]) \notin DOMAIN before.lead_data
    /\ valid_answer(message, before.fallback_step[1])

\* The condition C7 puts on a step of the program.
C7_Step ==
    LET before == persisted("A")
        after == store'["A"][1]
        flow == call'.flow[1]
        greater == {id \in ids_of(flow) : id > before.fallback_step[1]}
    IN  /\ Turn
        /\ result'.response_type = "fallback_firebase"
        /\ answers_step(before, call'.message, flow)
        => IF greater # {}
           THEN /\ after.fallback_step = Some(SetMin(greater))
                /\ result'.response = find_step(flow.steps, SetMin(greater))[1].question
                /\ ~after.fallback_completed
           ELSE /\ after.fallback_completed
                /\ result'.response = PHONE_REQUEST

\* C7: a valid answer at step s sets fallback_step to the smallest step id
\* greater than s and returns that step's question; fallback_completed is
\* set, with the phone-request prompt returned, only when the flow
\* definition has no step id greater than s.
C7_NextStepByAscendingId == [][C7_Step]_vars

\* The condition C8 puts on a step of the program.
C8_Step ==
    LET before == persisted("A")
        after == store'["A"][1]
        flow == call'.flow[1]
    IN  /\ Turn
        /\ result'.response_type = "fallback_firebase"
        /\ Get(before, "fallback_step", None) = None
        /\ Get(flow, "steps", << >>) # << >>
        => /\ after.fallback_step = Some(SetMin(ids_of(flow)))
           /\ result'.response = find_step(flow.steps, SetMin(ids_of(flow)))[1].question

\* C8: a fallback turn of a session whose fallback_step is null, on a flow
\* definition that has steps, sets fallback_step to the lowest step id of
\* the flow definition and returns that step's question.
C8_ActivationAtLowestId == [][C8_Step]_vars

\* The condition C9 puts on a step of the program.
C9_Step ==
    LET before == persisted("A")
    IN  /\ Turn
        /\ Get(before, "fallback_completed", FALSE)
        /\ ~Get(before, "phone_submitted", FALSE)
        => /\ call'.attempted = FALSE
           /\ \/ result'.response_type = "phone_collected_fallback"
              \/ result'.response \in {PHONE_REQUEST, INVALID_PHONE}

\* C9: a turn of a session whose fallback_completed is true and whose
\* phone_submitted is false is routed to phone handling: it is tagged
\* phone_collected_fallback, or it returns a phone prompt; it is not
\* answered by the AI backend or with a step's question.
C9_RoutedToPhoneHandling == [][C9_Step]_vars

\* The condition C10 puts on a step of the program.
C10_Step ==
    LET before == persisted("A")
    IN  /\ Turn
        /\ Get(before, "phone_submitted", FALSE)
        => /\ result'.response # PHONE_REQUEST
           /\ call'.flow # None =>
                 \A k \in 1..Len(Get(call'.flow[1], "steps", << >>)) :
                     result'.response # call'.flow[1].steps[k].question

\* C10: a turn of a session whose phone_submitted is true returns neither
\* the phone-request prompt nor the question of a step of the flow.
C10_FlowReleasedAfterPhone == [][C10_Step]_vars

\* The condition C11 puts on a step of the program.
C11_Step ==
    LET before == persisted("A")
        digits == Len(only_digits(call'.message))
    IN  /\ call'.op = "process_message"
        /\ "L157" \notin call'.faults
        /\ Get(before, "fallback_completed", FALSE)
        /\ ~Get(before, "phone_submitted", FALSE)
        /\ digits >= 10 /\ digits <= 13
        => /\ ~call'.attempted
           /\ result'.response_type = "phone_collected_fallback"

\* C11: when fallback_completed is true, phone_submitted is false and the
\* message has 10 to 13 digits, process_message (once it has loaded the
\* session) handles the phone without calling the AI backend and tags the
\* result phone_collected_fallback.
C11_PhoneBeforeAI == [][C11_Step]_vars

\* C11 (witness): a phone turn has run on which the AI backend, still marked
\* available for the session, would have answered.
C11_Witness ==
    /\ call.op = "process_message"
    /\ result.response_type = "phone_collected_fallback"
    /\ ~call.attempted
    /\ valid_gemini_response(call.ai.value)
    /\ persisted("A").gemini_available

\* ---------------------------------- the specification with phone submission

\* The phone numbers submitted out of band: 11 digits, or too few.
PhoneNumbers ==
    { <<"1", "1", "9", "8", "7", "6", "5", "4", "3", "2", "1">>, <<"1", "2", "3">> }

\* The environments of a call of handle_phone_number_submission in which the
\* session store works.
SubmissionEnvs == {env \in PhoneEnvs : ~store_fails(env)}

\* The flow with step ids 1..n stored in descending order.
reversed_flow(n) == flow_of([k \in 1..n |-> n + 1 - k])

InitSubmission ==
    /\ flow_store \in {fixed_flow(n) : n \in 1..MaxSteps} \cup {reversed_flow(MaxSteps)}
    /\ Constructed

\* A turn of process_message with working stores; the AI backend times out
\* or answers.
PlainTurn ==
    \E message \in Messages :
        \E ai \in {AITimeout, BaseEnv.ai} :
            ProcessMessage("A", message, [BaseEnv EXCEPT !.ai = ai])

\* A call of handle_phone_number_submission for the session.
Submission ==
    \E phone_number \in PhoneNumbers :
        \E env \in SubmissionEnvs :
            HandlePhoneNumberSubmission("A", phone_number, env)

NextSubmission == PlainTurn \/ Submission

SpecSubmission == InitSubmission /\ [][NextSubmission]_vars

\* C12: the lead store receives at most one lead record, and a record it
\* receives has an answer for every step of the flow and the phone.
C12_LeadAtMostOnce ==
    /\ Len(leads) <= 1
    /\ \A k \in 1..Len(leads) :
           LET answered == {leads[k].answers[i].id : i \in 1..Len(leads[k].answers)}
           IN  flow_ids \cup {Len(flow_store.steps) + 1} \subseteq answered

\* The condition C13 puts on a step of the program.
C13_Step ==
    /\ call'.op = "process_message"
    /\ result'.response_type = "phone_collected_fallback"
    /\ call'.faults = {}
    => /\ store'["A"][1].phone_submitted
       /\ result'.response[1] = "Numero confirmado: "
       /\ contains(result'.response, only_digits(call'.message))
       /\ contains(result'.response, MESSAGE_SENT) <=> call'.send = "ok"
       /\ contains(result'.response, MESSAGE_PROBLEM) <=> call'.send # "ok"

\* C13: a phone turn with a valid phone and a working session store persists
\* phone_submitted and returns the confirmation with the phone digits,
\* whether or not the lead store fails and whichever dispatch fails; the
\* confirmation carries the "message sent" notice when both dispatches
\* succeeded and the "problem" notice otherwise.
C13_PhoneFireAndContinue == [][C13_Step]_vars

\* C13 (witness): a phone turn in which the lead store and the first
\* dispatch both failed has confirmed the phone.
C13_Witness ==
    /\ call.op = "process_message"
    /\ result.response_type = "phone_collected_fallback"
    /\ call.lead_fails /\ call.send = "first_fails"
    /\ leads = << >> /\ sent = {}
    /\ persisted("A").phone_submitted

\* The condition C14 puts on a step of the program.
C14_Step ==
    call'.op = "process_message" /\ result'.response_type = "error"
    => store' = store

\* C14: a process_message turn that ends with response_type error leaves the
\* persisted session as it was before the turn.
C14_NoPartialPersist == [][C14_Step]_vars

\* The condition C15 puts on a step of the program.
C15_Step ==
    /\ call'.op = "process_message"
    /\ call'.faults \cap {"L667", "L688"} # {}
    => result'.response_type \in {"ai_intelligent", "fallback_firebase"}

\* C15: a turn whose AI or fallback answer is ready when the save of the turn
\* (line 667 or 688) fails still returns that answer, tagged ai_intelligent
\* or fallback_firebase, and not response_type error.
C15_BestEffortAnswer == [][C15_Step]_vars

\* The condition C16 puts on a step of the program.
C16_Step ==
    LET before == persisted("A")
        after == store'["A"][1]
        s == before.fallback_step[1]
    IN  /\ Turn
        /\ result'.response_type = "fallback_firebase"
        /\ call'.flow # None
        /\ call'.flow[1] = default_flow \/ Get(call'.flow[1], "steps", << >>) = << >>
        => /\ Get(before, "fallback_step", None) = None =>
                 /\ after.fallback_step = Some(1)
                 /\ result'.response = find_step(default_flow.steps, 1)[1].question
           /\ answers_step(before, call'.message, default_flow) =>
                 IF s < 4
                 THEN /\ after.fallback_step = Some(s + 1)
                      /\ result'.response = find_step(default_flow.steps, s + 1)[1].question
                 ELSE /\ after.fallback_completed
                      /\ result'.response = PHONE_REQUEST

\* C16: a fallback turn for which the flow store raised, or returned a
\* definition with no steps, runs the hardcoded default flow: it activates
\* at step 1 with the default step-1 question, and a valid answer at step s
\* moves to step s+1 of the default flow, or completes at step 4.
C16_DefaultFlow == [][C16_Step]_vars

\* ------------------------------------ the specification of phone inputs

\* Phone inputs have up to MaxDigits digits.
MaxDigits == 14

\* The digits of a phone input, spelled as a str.
DigitText == <<"1", "1", "9", "8", "7", "6", "5", "4", "3", "2">>

\* A str of n digits that does not start with 55.
digits_of(n) == [k \in 1..n |-> DigitText[((k - 1) % 10) + 1]]

\* A phone input as a user types it: area code in brackets, then a blank.
typed(d) ==
    IF Len(d) < 2 THEN d
    ELSE <<"(">> \o SubSeq(d, 1, 2) \o <<")", " ">> \o SubSeq(d, 3, Len(d))

\* The phone inputs: no digits, and 8 to MaxDigits digits, starting with the
\* country code 55 or not, bare or as typed.
PhoneInputs ==
    LET bare == {digits_of(0)}
                \cup {digits_of(n) : n \in 8..MaxDigits}
                \cup {<<"5", "5">> \o digits_of(n - 2) : n \in 8..MaxDigits}
    IN  bare \cup {typed(d) : d \in bare}

InitPhoneInputs ==
    /\ flow_store = fixed_flow(1)
    /\ Constructed

\* The turn that creates the session: the AI backend times out.
FirstTurn ==
    /\ store["A"] = None
    /\ ProcessMessage("A", <<"o", "k">>, [BaseEnv EXCEPT !.ai = AITimeout])

\* A phone submission with every collaborator working.
SubmitPhone ==
    \E phone_number \in PhoneInputs :
        HandlePhoneNumberSubmission("A", phone_number, BaseEnv)

NextPhoneInputs == FirstTurn \/ SubmitPhone

SpecPhoneInputs == InitPhoneInputs /\ [][NextPhoneInputs]_vars

\* The dialable handle of the digits d by the reference rule.
reference_handle(d) ==
    CASE Len(d) = 10 ->
             <<"5", "5">> \o SubSeq(d, 1, 2) \o <<"9">> \o SubSeq(d, 3, 10)
      [] Len(d) = 11 -> <<"5", "5">> \o d
      [] Len(d) \notin {10, 11} /\ SubSeq(d, 1, 2) = <<"5", "5">> -> d
      [] OTHER -> <<"5", "5">> \o d

\* The condition C17 puts on a step of the program.
C17_Step ==
    LET d == SelectSeq(call'.message, LAMBDA ch : ch \in Digits)
        after == store'["A"][1]
    IN  call'.op = "handle_phone_number_submission" /\ store["A"] # None
        => IF Len(d) < 10 \/ Len(d) > 13
           THEN /\ store' = store /\ leads' = leads /\ sent' = sent
                /\ result'.message = INVALID_PHONE
           ELSE /\ after.phone_formatted = reference_handle(d)
                /\ Len(d) = 10 => Len(after.phone_formatted) = 13
                /\ after.phone_number = d
                /\ after.lead_data.phone = d

\* C17: phone handling of an existing session, with d the digits of the
\* input: an input with fewer than 10 or more than 13 digits is rejected and
\* changes no state; otherwise the stored handle is 55 + d[0..1] + 9 + d[2..]
\* when d has 10 digits, 55 + d when it has 11, d when d starts with 55, and
\* 55 + d in the remaining cases, and the stored raw phone is d.
C17_PhoneNormalization == [][C17_Step]_vars

\* C17 (witness): a typed input of 10 digits has been stored with its
\* 13-digit handle.
C17_Witness ==
    /\ call.op = "handle_phone_number_submission"
    /\ call.message = typed(digits_of(10))
    /\ Get(persisted("A"), "phone_number", << >>) = digits_of(10)
    /\ Len(Get(persisted("A"), "phone_formatted", << >>)) = 13

\* The condition C18 puts on a step of the program.
C18_Step ==
    LET record == leads'[Len(leads')].answers
        flow == call'.flows[1]
        lead_data == store'["A"][1].lead_data
        stored == {id \in ids_of(flow) : Get(lead_data, step_key(id), << >>) # << >>}
        n == Cardinality(stored)
    IN  Len(leads') = Len(leads) + 1
        => /\ Len(record) = n + 1
           /\ {record[i].id : i \in 1..n} = stored
           /\ \A i \in 1..n : record[i].answer = lead_data[step_key(record[i].id)]
           /\ \A i \in 1..n : \A j \in 1..n : i < j => record[i].id < record[j].id
           /\ record[n + 1] = [id |-> Len(flow.steps) + 1,
                               answer |-> only_digits(call'.message)]

\* C18: the lead record submitted lists, in ascending step-id order, one
\* {id, answer} entry for each step of the flow that has a stored answer,
\* followed by the phone as the last entry with id = number of steps + 1.
C18_LeadRecord == [][C18_Step]_vars

\* C18 (witness): a lead with two step answers and the phone has been
\* submitted under a flow stored in descending id order.
C18_Witness ==
    /\ flow_store.steps[1].id > 1
    /\ Len(leads) > 0
    /\ Len(leads[Len(leads)].answers) = 3
    /\ call.flows # << >> /\ call.flows[1] = flow_store

\* ------------------------------------------------ area-of-practice inputs

\* The words a client may name an area with, and what may surround them.
AreaWords ==
    { <<"d", "i", "v", "o", "r", "c", "i", "o">>,
      <<"d", "i", "v", "U+00F3", "r", "c", "i", "o">>,
      <<"t", "r", "a", "b", "a", "l", "h", "o">>,
      <<"p", "r", "e", "v", "i", "d", "e", "n", "c", "i", "a">>,
      <<"o", "k">> }

AreaPrefixes == { << >>, <<" ">>, <<"u", "m", " ">> }

AreaSuffixes == { << >>, <<" ">>, <<" ", "j", "a">> }

AreaInputs ==
    {pre \o w \o suf :
        pre \in AreaPrefixes,
        w \in UNION {{word, upper(word), title(word)} : word \in AreaWords},
        suf \in AreaSuffixes}

InitArea ==
    /\ flow_store = fixed_flow(1)
    /\ store = [s \in Sessions |-> None]
    /\ firebase_flow_cache = None
    /\ gemini_available = TRUE
    /\ leads = << >>
    /\ sent = {}
    /\ store_faults = 0
    /\ call \in {[op |-> "answer", answer |-> a] : a \in AreaInputs}
    /\ result = EmptyDict
    /\ tasks = [t \in TaskIds |-> Idle]

\* _validate_and_normalize_answer applied to the answer of step 2.
NormalizeArea ==
    /\ call.op = "answer"
    /\ call' = [op |-> "_validate_and_normalize_answer", answer |-> call.answer,
                step_id |-> 2]
    /\ result' = [value |-> validate_and_normalize_answer(call.answer, 2)]
    /\ UNCHANGED <<store, flow_store, firebase_flow_cache, gemini_available,
                   leads, sent, store_faults, tasks>>

NextArea == NormalizeArea

SpecArea == InitArea /\ [][NextArea]_vars

family_law_label == <<"F", "a", "m", "U+221A", "U+2260", "l", "i", "a">>

labor_law_label == <<"T", "r", "a", "b", "a", "l", "h", "i", "s", "t", "a">>

\* The keywords of the area table as they are meant to be spelled.
divorce_keywords ==
    { <<"d", "i", "v", "o", "r", "c", "i", "o">>,
      <<"d", "i", "v", "U+00F3", "r", "c", "i", "o">> }

\* C19: every step-2 input containing "divorcio" or "div(o acute)rcio" in any
\* case normalizes to the family-law label, every input containing "trabalho"
\* to the labor-law label, and an input matching no keyword is returned
\* trimmed and title-cased.
C19_AreaNormalization ==
    call.op = "_validate_and_normalize_answer"
    => LET answer_lower == lower(call.answer)
           divorce == \E kw \in divorce_keywords : contains(answer_lower, kw)
           labor == contains(answer_lower, <<"t", "r", "a", "b", "a", "l", "h", "o">>)
           keyword == divorce \/ \E k \in 1..Len(area_map) :
                                     contains(answer_lower, area_map[k][1])
       IN  /\ divorce => result.value = family_law_label
           /\ labor => result.value = labor_law_label
           /\ ~keyword => result.value = title(strip(call.answer))

\* The condition C20 puts on a step of the program.
C20_Step ==
    /\ /\ call.op = "process_message"
       /\ call'.op = "process_message"
       /\ call'.session_id = call.session_id
       /\ "message_count" \in DOMAIN result
       /\ "message_count" \in DOMAIN result'
       => result'.message_count > result.message_count
    /\ \A s \in Sessions :
          store[s] # None
          => /\ store'[s] # None
             /\ Get(store'[s][1], "message_count", 0) >= Get(store[s][1], "message_count", 0)

\* C20: across successive process_message turns of one session the
\* message_count values returned are strictly increasing and the persisted
\* message_count never decreases.
C20_MessageCountIncreases == [][C20_Step]_vars

\* The condition C21 puts on a step of the program.
C21_Step ==
    \A s \in Sessions :
        LET before == persisted(s)
            after == IF store'[s] = None THEN EmptyDict ELSE store'[s][1]
        IN  /\ Get(before, "fallback_completed", FALSE)
               => Get(after, "fallback_completed", FALSE)
            /\ Get(before, "phone_submitted", FALSE)
               => Get(after, "phone_submitted", FALSE)

\* C21: once fallback_completed is true in the persisted session it stays
\* true, and once phone_submitted is true in the persisted session it stays
\* true, whatever process_message and handle_phone_number_submission calls
\* follow.
C21_FlagsStaySet == [][C21_Step]_vars

\* C21 (witness): an ordinary turn of process_message has been persisted for
\* a session whose flow is completed and whose phone is submitted, and a
\* lead was submitted before it.
C21_Witness ==
    /\ call.op = "process_message"
    /\ ~is_phone_number(call.message)
    /\ Get(persisted("A"), "last_message", None) = call.message
    /\ Get(persisted("A"), "fallback_completed", FALSE)
    /\ Get(persisted("A"), "phone_submitted", FALSE)
    /\ Len(leads) > 0
    /\ Get(persisted("A"), "message_count", 0) > Len(flow_store.steps) + 1

\* The condition C22 puts on a step of the program.
C22_Step ==
    \A s \in Sessions :
        LET before == Get(persisted(s), "lead_data", EmptyDict)
            after == IF store'[s] = None THEN EmptyDict
                     ELSE Get(store'[s][1], "lead_data", EmptyDict)
        IN  \A key \in DOMAIN before :
                key \in DOMAIN after /\ after[key] = before[key]

\* C22: lead_data is append-only: an entry written to the persisted
\* lead_data of a session (a step answer or the phone) is never modified or
\* removed by a later process_message or handle_phone_number_submission call.
C22_LeadDataAppendOnly == [][C22_Step]_vars

\* The condition C23 puts on a step of the program.
C23_Step ==
    LET before == persisted("A")
        after == store'["A"][1]
        flow == call'.flow[1]
        message == call'.message
        normalized == validate_and_normalize_answer(message, 1)
        fallback_turn ==
            /\ Turn
            /\ result'.response_type = "fallback_firebase"
            /\ 1 \in ids_of(flow)
    IN  /\ fallback_turn /\ Get(before, "fallback_step", None) = None
           => /\ after.lead_data = EmptyDict
              /\ after.fallback_step = Some(1)
              /\ result'.response = find_step(flow.steps, 1)[1].question
        /\ /\ fallback_turn
           /\ Get(before, "fallback_step", None) = Some(1)
           /\ Get(before, "lead_data", EmptyDict) = EmptyDict
           /\ strip(message) # << >>
           => IF should_advance_step(normalized, 1)
              THEN after.lead_data = [k \in {"step_1"} |-> normalized]
              ELSE after.lead_data = EmptyDict

\* C23: the message that triggers fallback activation is not consumed as an
\* answer: after the activation turn lead_data is empty, fallback_step is the
\* first step and its question is asked, and the message of the following
\* fallback turn is the one validated as the answer of step 1.
C23_ActivationKeepsMessage == [][C23_Step]_vars

\* C23 (witness): a message that passes the validation of step 1 has
\* activated the fallback flow and was not stored, and step 1 is asked.
C23_Witness ==
    /\ call.op = "process_message"
    /\ call.faults = {}
    /\ result.response_type = "fallback_firebase"
    /\ valid_answer(call.message, 1)
    /\ persisted("A").message_count = 1
    /\ persisted("A").fallback_step = Some(1)
    /\ persisted("A").lead_data = EmptyDict
    /\ 1 \in flow_ids
    /\ result.response = question_of(1)

\* Whether the advancement rule, as the specification words it, rejects
\* message at step step_id: blank input; at the name step fewer than two
\* words or a word of one letter; at the free-text steps fewer than 3 (area)
\* or 5 (situation) characters; at any other step but the yes/no step fewer
\* than 2.
reference_rejects(message, step_id) ==
    LET answer == strip(message)
        words == split(answer)
    IN  \/ answer = << >>
        \/ step_id = 1 /\ (Cardinality(words) < 2 \/ \E w \in words : w[2] - w[1] + 1 < 2)
        \/ step_id = 2 /\ Len(answer) < 3
        \/ step_id = 3 /\ Len(answer) < 5
        \/ step_id \notin 1..4 /\ Len(answer) < 2

\* A fallback turn of process_message has just run at a step of the flow it
\* read, no call of the session store failed in it, and its message is blank
\* or is rejected as the answer still missing for the step.
RejectedTurn ==
    LET before == persisted("A")
    IN  /\ Turn
        /\ result'.response_type = "fallback_firebase"
        /\ Get(before, "fallback_step", None) # None
        /\ before.fallback_step[1] \in ids_of(call'.flow[1])
        /\ \/ strip(call'.message) = << >>
           \/ /\ step_key(before.fallback_step[1]) \notin DOMAIN before.lead_data
              /\ reference_rejects(call'.message, before.fallback_step[1])

\* What C24 requires of a turn, the session fields in `changing` being those
\* the turn may change.
rejection_effect(changing) ==
    LET before == persisted("A")
        after == store'["A"][1]
        question == find_step(call'.flow[1].steps, before.fallback_step[1])[1].question
        response == result'.response
    IN  /\ Len(response) >= Len(question)
        /\ SubSeq(response, Len(response) - Len(question) + 1, Len(response)) = question
        /\ DOMAIN after \ changing = DOMAIN before \ changing
        /\ \A key \in DOMAIN before \ changing : after[key] = before[key]

C25_Step ==
    LET before == persisted("A")
        after == store'["A"][1]
        flow == call'.flow[1]
        s == before.fallback_step[1]
    IN  /\ Turn
        /\ result'.response_type = "fallback_firebase"
        /\ Get(before, "fallback_step", None) # None
        /\ s \in ids_of(flow)
        /\ step_key(s) \in DOMAIN before.lead_data
        /\ strip(call'.message) # << >>
        => /\ after.lead_data = before.lead_data
           /\ IF s + 1 \in ids_of(flow)
              THEN /\ after.fallback_step = Some(s + 1)
                   /\ result'.response = find_step(flow.steps, s + 1)[1].question
                   /\ Get(after, "fallback_completed", FALSE)
                      = Get(before, "fallback_completed", FALSE)
              ELSE /\ after.fallback_step = Some(s)
                   /\ after.fallback_completed
                   /\ result'.response = PHONE_REQUEST

\* C25: when a fallback turn runs with lead_data[step_s] already present for
\* the current step s, the message is not validated, lead_data[step_s] keeps
\* its stored value whatever the message, and the engine proceeds to the
\* advance logic: the question of step s + 1, or completion and the
\* phone-request prompt.
C25_AnsweredStepIdempotent == [][C25_Step]_vars

\* C25 (witness): at a step whose answer was stored, a message that the
\* validation of the step rejects has been answered with the phone-request
\* prompt, and the stored answer is still there.
C25_Witness ==
    /\ call.op = "process_message"
    /\ call.faults = {}
    /\ call.message = <<"o", "k">>
    /\ result.response_type = "fallback_firebase"
    /\ result.response = PHONE_REQUEST
    /\ persisted("A").fallback_step = Some(1)
    /\ Get(persisted("A").lead_data, "step_1", << >>) = <<"A", "n", "a", " ", "L", "i">>

\* ------------------------------------- the specification with concurrent turns

\* The messages of the concurrent turns: two names, which every step accepts
\* and no normalization changes.
RaceMessages ==
    { <<"A", "n", "a", " ", "L", "i">>, <<"B", "o", " ", "Y", "u">> }

\* The environment of the concurrent turns: the stores work and the AI
\* backend times out.
RaceEnv == [BaseEnv EXCEPT !.ai = AITimeout]

\* The working state of a coroutine as it resumes: its locals, and the
\* collaborators as they are now.
task_ctx(task) ==
    [Ctx(task.sd) EXCEPT !.ret = task.ret, !.pending = task.pending]

\* The coroutine's locals after a stretch of code that left context c.
task_at(task, pc, c) ==
    [task EXCEPT !.pc = pc, !.sd = c.sd, !.ret = c.ret, !.pending = c.pending]

\* What a stretch of code of a coroutine does to the collaborators.
Effect(c) ==
    /\ store' = c.store
    /\ firebase_flow_cache' = c.cache
    /\ leads' = c.leads
    /\ sent' = c.sent
    /\ UNCHANGED <<flow_store, gemini_available, store_faults, call, result>>

InitRace ==
    /\ flow_store \in {fixed_flow(n) : n \in 1..MaxSteps}
    /\ Constructed

\* A turn that runs alone, before any concurrent one.
SequentialTurn ==
    /\ \A t \in TaskIds : tasks[t] = Idle
    /\ \E message \in RaceMessages \cup {<< >>} :
           ProcessMessage("A", message, RaceEnv)

\* process_message up to the session it gets from get_user_session (line 641).
LoadSession(t) ==
    /\ tasks[t] = Idle
    /\ Get(persisted("A"), "message_count", 0) < MaxCount
    /\ \E message \in RaceMessages :
           LET sd == get_or_create_session(store["A"], "A", platform_of("A"), None)
           IN  /\ ~phone_turn(sd, message)
               /\ tasks' = [tasks EXCEPT ![t] =
                     [pc |-> "loaded", message |-> message, sd |-> sd, ret |-> None,
                      pending |-> None, loaded |-> sd, ended |-> 0]]
    /\ UNCHANGED <<store, flow_store, firebase_flow_cache, gemini_available,
                   leads, sent, store_faults, call, result>>

\* process_message, line 662: the AI attempt, with the save of
\* _mark_gemini_unavailable.
AttemptAI(t) ==
    /\ tasks[t].pc = "loaded"
    /\ \E c \in {attempt_gemini_response(task_ctx(tasks[t]), tasks[t].message, "A",
                                         RaceEnv)} :
           /\ tasks' = [tasks EXCEPT ![t] = task_at(@, "attempted", c)]
           /\ Effect(c)

\* _get_fallback_response up to its first save (lines 310-374).
AnswerStep(t) ==
    /\ tasks[t].pc = "attempted"
    /\ \E c \in {fallback_answer(task_ctx(tasks[t]), tasks[t].message, RaceEnv)} :
           /\ tasks' = [tasks EXCEPT ![t] =
                 task_at(@, IF c.pending # None THEN "answered" ELSE "responded", c)]
           /\ Effect(c)

\* _get_fallback_response, its advance logic with its save (lines 376-391).
AdvanceStep(t) ==
    /\ tasks[t].pc = "answered"
    /\ \E c \in {fallback_advance(task_ctx(tasks[t]), RaceEnv)} :
           /\ tasks' = [tasks EXCEPT ![t] = task_at(@, "responded", c)]
           /\ Effect(c)

\* process_message, lines 683-700: the save of the turn and its result.
EndTurn(t) ==
    /\ tasks[t].pc = "responded"
    /\ \E c \in {fallback_turn_end(task_ctx(tasks[t]), tasks[t].message, "A",
                                   platform_of("A"), RaceEnv)} :
           /\ tasks' = [tasks EXCEPT ![t] =
                 [task_at(@, "done", c) EXCEPT
                     !.ended = 1 + Cardinality({u \in TaskIds : tasks[u].pc = "done"})]]
           /\ Effect(c)

NextRace ==
    \/ SequentialTurn
    \/ \E t \in TaskIds :
           LoadSession(t) \/ AttemptAI(t) \/ AnswerStep(t) \/ AdvanceStep(t) \/ EndTurn(t)

SpecRace == InitRace /\ [][NextRace]_vars

\* Two concurrent turns have ended that both loaded the session at the same
\* step of the flow, before an answer for it was stored.
both_loaded_at(s) ==
    \A t \in TaskIds :
        /\ tasks[t].pc = "done"
        /\ tasks[t].loaded.fallback_step = Some(s)
        /\ step_key(s) \notin DOMAIN tasks[t].loaded.lead_data

\* C26: concurrent turns on one session are not serialized: when two
\* process_message turns for the same session both load it at step s, in
\* every interleaving of their loads and saves both store their message as
\* the answer of step s and both advance from s (the question of step s + 1,
\* or the phone-request prompt), neither result is an error, and the persisted
\* session holds the answer of the turn that saved last.
C26_ConcurrentTurnsRace ==
    \A s \in flow_ids :
        both_loaded_at(s)
        => /\ \A t \in TaskIds :
                 /\ tasks[t].ret.response_type = "fallback_firebase"
                 /\ tasks[t].sd.lead_data[step_key(s)] = tasks[t].message
                 /\ IF s + 1 \in flow_ids
                    THEN /\ tasks[t].ret.fallback_step = Some(s + 1)
                         /\ tasks[t].ret.response = question_of(s + 1)
                    ELSE /\ tasks[t].ret.fallback_completed
                         /\ tasks[t].ret.response = PHONE_REQUEST
           /\ \A t \in TaskIds :
                 tasks[t].ended = Cardinality(TaskIds)
                 => persisted("A").lead_data[step_key(s)] = tasks[t].message

\* C26 (witness): two turns that both loaded the session at step 1 with
\* different names have both ended without an error, both with the question
\* of step 2, the first turn's save of its answer came while the second was
\* already loaded, and the name of the turn that ended last is stored.
C26_Witness ==
    /\ both_loaded_at(1)
    /\ 2 \in flow_ids
    /\ tasks[1].message # tasks[2].message
    /\ tasks[1].ended = 1
    /\ \A t \in TaskIds : tasks[t].ret.response = question_of(2)
    /\ persisted("A").lead_data["step_1"] = tasks[2].message

\* ------------------------------------------ the specification with two sessions

\* The messages and the AI outcomes of the turns of the two sessions.
IsolationMessages == { << >>, <<"A", "n", "a", " ", "L", "i">> }

IsolationEnvs == {[BaseEnv EXCEPT !.ai = ai] : ai \in {AITimeout, BaseEnv.ai}}

InitIsolation ==
    /\ flow_store = fixed_flow(1)
    /\ Constructed

\* A turn of process_message on either session, with working stores.
SessionTurn ==
    \E session_id \in Sessions :
        \E message \in IsolationMessages :
            \E env \in IsolationEnvs :
                ProcessMessage(session_id, message, env)

\* One call of get_gemini_health_status().
HealthCheck ==
    \E ai \in AIOutcomes :
        /\ gemini_available' = get_gemini_health_status(ai).flag
        /\ result' = get_gemini_health_status(ai).ret
        /\ call' = [op |-> "get_gemini_health_status", ai |-> ai]
        /\ UNCHANGED <<store, flow_store, firebase_flow_cache, leads, sent,
                       store_faults, tasks>>

NextIsolation == SessionTurn \/ HealthCheck

SpecIsolation == InitIsolation /\ [][NextIsolation]_vars

\* The condition C27 puts on a step of the program.
C27_Step ==
    /\ call'.op = "process_message"
       => /\ \A other \in Sessions \ {call'.session_id} : store'[other] = store[other]
          /\ ~phone_turn(persisted(call'.session_id), call'.message)
             => (call'.attempted
                 <=> Get(persisted(call'.session_id), "gemini_available", TRUE))
    /\ call'.op = "get_gemini_health_status" => store' = store

\* C27: AI health is isolated per session: a turn of one session, whatever
\* AI failure it records, changes nothing of another session, the AI is
\* attempted on a turn exactly when the session's own gemini_available is not
\* false, and the process-wide flag get_gemini_health_status writes never
\* gates the attempt.
C27_HealthPerSession == [][C27_Step]_vars

\* C27 (witness): with an AI failure recorded for session A and the
\* process-wide flag false, a turn of session B has called the AI backend.
C27_Witness ==
    /\ call.op = "process_message"
    /\ call.session_id = "B"
    /\ call.attempted
    /\ ~gemini_available
    /\ store["A"] # None
    /\ ~store["A"][1].gemini_available
    /\ store["B"][1].gemini_available

\* ------------------------------------- the specification of sequential turns

\* A turn with working stores, whatever the AI backend does.
AnyAITurn ==
    \E message \in Messages :
        \E ai \in AIOutcomes :
            ProcessMessage("A", message, [BaseEnv EXCEPT !.ai = ai])

NextSequential == AnyAITurn

SpecSequential == InitE2E /\ [][NextSequential]_vars

\* C28: with a fixed flow of step ids 1..n and a working session store, in
\* every state sequential process_message turns reach, lead_data holds step_k
\* for every k below fallback_step and for no k above it, every stored step_k
\* passes the advancement rule of step k, and fallback_completed implies that
\* step_k is there for every k in 1..n.
C28_LeadDataMatchesStep ==
    store["A"] # None
    => LET session == store["A"][1]
           n == Len(flow_store.steps)
           at == IF session.fallback_step = None THEN 0 ELSE session.fallback_step[1]
           held == {k \in 1..n : step_key(k) \in DOMAIN session.lead_data}
       IN  /\ session.fallback_step # None
              => /\ \A k \in 1..n : k < at => k \in held
                 /\ \A k \in 1..n : k > at => k \notin held
           /\ session.fallback_step = None => held = {}
           /\ \A k \in held : ~reference_rejects(session.lead_data[step_key(k)], k)
           /\ session.fallback_completed => held = 1..n

\* C28 (witness): a flow of two steps is completed and the phone collected,
\* with both answers stored.
C28_Witness ==
    /\ store["A"] # None
    /\ Len(flow_store.steps) = 2
    /\ store["A"][1].fallback_completed
    /\ store["A"][1].phone_submitted
    /\ store["A"][1].fallback_step = Some(2)
    /\ {"step_1", "step_2", "phone"} \subseteq DOMAIN store["A"][1].lead_data

============================================================================
